---- MODULE Spec2Model ----
(***************************************************************************)
(* A model of the audio loopback daemon in src/alsaloop.py: the hysteresis *)
(* comparator (HystComp, the probe setter) and the asyncio state machine   *)
(* LoopStateMachine (run, _wake, _idle, _monitor, _stream, _gather,        *)
(* _restart, _shutdown).                                                   *)
(*                                                                         *)
(* The event loop is modelled as interleaving: one action is one step of   *)
(* one task, from the await it was suspended at to the next await it       *)
(* suspends at (or to its end).  Sleep durations are not modelled: a       *)
(* sleeping task or a pending call_later timer may resume at any time.     *)
(* A task on which cancel() was called raises CancelledError at its next   *)
(* step and runs no further code of its coroutine: the model removes it    *)
(* from the loop's tasks at the cancel() call.                             *)
(* An await that does not suspend (rxq.get() on a non-empty queue,         *)
(* rxq.put() on the unbounded queue, gather() of no task) does not end a   *)
(* step: no other callback runs until the task reaches an await that       *)
(* suspends it.                                                            *)
(***************************************************************************)
EXTENDS Integers, Sequences, FiniteSets, Bags, TLC

\* ------------------------------------------------------------- bounds
MaxPending == 2
MaxTasks == 4
MaxSignals == 1
MaxCount == 2
MaxDb == 20
MaxLeaked == 1

\* ------------------------------------------------------ numeric part
\* Thresholds are kept in fixed point, in units of 1 / Frac.
Frac == 2 ^ 7
TableOne == 2 ^ 20

\* 10 ** (-k / 20) for k = 0 .. 40, in units of 2^-20 (entry k + 1).
Pow10Table ==
  << 1048576, 934544, 832914, 742335, 661607, 589658, 525533, 468382,
     417446, 372049, 331589, 295529, 263390, 234747, 209218, 186466,
     166188, 148115, 132008, 117652, 104858, 93454, 83291, 74233, 66161,
     58966, 52553, 46838, 41745, 37205, 33159, 29553, 26339, 23475, 20922,
     18647, 16619, 14812, 13201, 11765, 10486 >>

Abs(x) == IF x < 0 THEN -x ELSE x

\* AlsaDeviceConfig.maxamp for a format of `bits` bits.
MaxAmpOf(bits) == 2 ^ (bits - 1)

\* maxamp * 10 ** (db / 20) for db <= 0, in units of 1 / Frac.  maxamp is a
\* power of two, so the product with a table entry is a shift of it.
reverse_db(amp, db) ==
  LET t == Pow10Table[(-db) + 1]
      a == amp * Frac
  IN IF a >= TableOne THEN t * (a \div TableOne)
                      ELSE t \div (TableOne \div a)

HystComp(low, high) == [low |-> low, high |-> high]

\* The probe setter: the comparator installed for a sensitivity val.
ProbeSetter(amp, val) ==
  IF val = 0
  THEN HystComp(0, 0)
  ELSE LET v == -Abs(val)
       IN HystComp(reverse_db(amp, v), reverse_db(amp, v - 3))

\* HystComp.comp: the pair (val <= low, val >= high).
comp(tc, val) == [low |-> val * Frac <= tc.low, high |-> val * Frac >= tc.high]

\* ------------------------------------------------------- state machine
VARIABLES
  state,       \* LoopStateMachine._local_state
  rxq,         \* LoopStateMachine.rxq, the command queue
  tasks,       \* the event loop's live tasks (asyncio.all_tasks()), a bag
  timers,      \* pending loop.call_later(delay, create_task, coro()) handles, a bag
  stopped,     \* loop.stop() was called
  aioloop,     \* dbus.aioloop is set
  buffer,      \* LoopStateMachine._buffer, as the median the probe computes on it
  probe_cfg,   \* LoopStateMachine.probe_cfg
  threscomp,   \* LoopStateMachine._threscomp
  maxamp,      \* capture_cfg.maxamp
  dispatched,  \* history: run has dispatched a command since construction
  from_play,   \* history: the latest dispatch was of STOP in state PLAY
  signalled,   \* history: a process signal has been delivered
  handles,     \* the number of playback PCM handles that are open
  scope,       \* a format descriptor and a MemScope over a buffer
  stream,      \* a stream handler with the periods it has read and written
  fault        \* history: the step just taken is one in which the playback
               \* device raised ALSAAudioError

vars == << state, rxq, tasks, timers, stopped, aioloop, buffer, probe_cfg,
           threscomp, maxamp, dispatched, from_play, signalled, handles, scope,
           stream, fault >>

PlayerState == {"UNKNOWN", "HYBERNATE", "IDLE", "PLAY", "KILLED"}
PlayerCommand == {"PLAY", "STOP"}

\* A capture buffer is represented by the median of |sample - reference| over
\* its decoded frames; Short is a buffer holding no complete frame, on which
\* the median is undefined (statistics.median raises on empty data).
Short == -1
Medians == {5000, 8000, 12000}
Bufs == Medians \cup {Short}

\* The configurations a (re)load may produce.
Sensitivities == {-10, 0}
Configs ==
  [sensitivity : Sensitivities, start_count : 1 .. MaxCount, stop_count : 1 .. MaxCount]

\* A task: its coroutine (kind), the await it is suspended at (pc), the
\* coroutine's local counter and cmd, and two history fields: hist, the
\* classifications of the handler's latest probe cycles, and stale, set once
\* a later command has been dispatched.
NewTask(kind, stale) ==
  [kind |-> kind, pc |-> "start", counter |-> 0, cmd |-> "none",
   hist |-> << >>, stale |-> stale]

\* Tasks and timers are kept in bags: two tasks of one coroutine at the same
\* await are two tasks.
Bag1(x) == SetToBag({x})
NTasks == BagCardinality(tasks)
NTimers == BagCardinality(timers)

\* The loop holds at most MaxTasks tasks: n more may be created.
Room(n) == NTasks + n <= MaxTasks

\* The bag B with f applied to each element.
MapBag(f(_), B) ==
  LET S == {f(x) : x \in BagToSet(B)}
      Pre(y) == {x \in BagToSet(B) : f(x) = y}
      RECURSIVE Sum(_)
      Sum(X) == IF X = {} THEN 0
                ELSE LET x == CHOOSE z \in X : TRUE
                     IN CopiesIn(x, B) + Sum(X \ {x})
  IN [y \in S |-> Sum(Pre(y))]

\* The number of tasks of the loop that satisfy P.
NumTasks(P(_)) ==
  BagCardinality([t \in {u \in BagToSet(tasks) : P(u)} |-> CopiesIn(t, tasks)])

\* The delayed handler starts pending or yet to be scheduled: the pending
\* call_later handles, the queued commands, the command run holds while it
\* waits in _gather, and the PLAY each run yet to start will enqueue.
WillSchedule(u) ==
  \/ u.kind = "run" /\ u.pc \in {"start", "gather"}
  \/ u.kind = "_restart"
Pending == NTimers + Len(rxq) + NumTasks(WillSchedule)

\* A stream task inside its with block holds the playback handle it opened.
Holding(u) == u.kind = "_stream" /\ u.pc = "sleep"
Held(t) == IF Holding(t) THEN 1 ELSE 0

\* The handles the tasks of B hold: PlaybackDevice.__exit__ closes them when
\* CancelledError is raised in the tasks.
Released(B) ==
  BagCardinality([u \in {v \in BagToSet(B) : Holding(v)} |-> CopiesIn(u, B)])

\* The open handles no task holds: PCM objects that were opened by an
\* __enter__ that raised and that have not been finalized.  Such an object is
\* unreachable once the handler has returned; the model takes it to be
\* finalized before the loop runs another callback.
Leaked == IF handles = 0 THEN 0 ELSE handles - NumTasks(Holding)

\* run is in its loop and has not reached an await that suspends it: with a
\* command in the queue rxq.get() returns at once, so after a dispatch run
\* goes on to the next command without yielding to the loop.
InLoop(u) == u.kind = "run" /\ u.pc = "loop"
Busy == \E u \in BagToSet(tasks) : InLoop(u)

\* The event loop is running and free to run another callback.
Ready == ~stopped /\ ~Busy /\ Leaked = 0

HandlerKinds == {"_wake", "_idle", "_monitor", "_stream"}
SetStale(t) == IF t.kind \in HandlerKinds THEN [t EXCEPT !.stale = TRUE] ELSE t
SetStaleTimer(tm) == [tm EXCEPT !.stale = TRUE]

\* The tasks other than t: what _gather lists, cancels and waits for.
Others(t) == tasks (-) Bag1(t)

\* No format descriptor is under construction and no MemScope is iterated.
NoScope == [pc |-> "none"]

\* No stream handler is followed with its periods.
NoStream == [pc |-> "none"]

Init ==
  /\ state = "UNKNOWN"
  /\ rxq = << >>
  /\ tasks = Bag1(NewTask("run", FALSE))
  /\ timers = EmptyBag
  /\ stopped = FALSE
  /\ aioloop = FALSE
  /\ buffer = Short
  /\ probe_cfg \in Configs
  /\ maxamp = MaxAmpOf(16)
  /\ threscomp = ProbeSetter(maxamp, probe_cfg.sensitivity)
  /\ dispatched = FALSE
  /\ from_play = FALSE
  /\ signalled = FALSE
  /\ handles = 0
  /\ scope = NoScope
  /\ stream = NoStream
  /\ fault = FALSE

\* ------------------------------------------------------------ inputs
\* A PLAY or STOP enqueued by the media-control connector (MPRISConnector
\* holds rxq; it reaches the loop through dbus.aioloop, which run sets).
Enqueue(c) ==
  /\ Ready
  /\ aioloop
  /\ Pending < MaxPending
  /\ rxq' = Append(rxq, c)
  /\ fault' = FALSE
  /\ UNCHANGED << state, tasks, timers, stopped, aioloop, buffer, probe_cfg,
                  threscomp, maxamp, dispatched, from_play, signalled, handles, scope, stream >>

\* A process signal: the loop creates a task for _restart(sig) or _shutdown(sig).
Signal(kind) ==
  /\ Ready
  /\ Room(1)
  /\ Cardinality({t \in BagToSet(tasks) : t.kind \in {"_restart", "_shutdown"}})
       < MaxSignals
  /\ kind = "_restart" => Pending < MaxPending
  /\ tasks' = tasks (+) Bag1(NewTask(kind, FALSE))
  /\ signalled' = TRUE
  /\ handles' = handles
  /\ fault' = FALSE
  /\ UNCHANGED << state, rxq, timers, stopped, aioloop, buffer, probe_cfg,
                  threscomp, maxamp, dispatched, from_play, scope, stream >>

\* A call_later handle comes due: asyncio.create_task(coro).
TimerFire(tm) ==
  /\ Ready
  /\ Room(1)
  /\ timers' = timers (-) Bag1(tm)
  /\ tasks' = tasks (+) Bag1(NewTask(tm.coro, tm.stale))
  /\ fault' = FALSE
  /\ UNCHANGED << state, rxq, stopped, aioloop, buffer, probe_cfg, threscomp,
                  maxamp, dispatched, from_play, signalled, handles, scope, stream >>

\* --------------------------------------------------------------- run
\* A variant of manifests with the two entries exchanged.
manifests_exchanged(cmd) ==
  IF cmd = "PLAY"
  THEN [state |-> "HYBERNATE", delay |-> "hybernate_interval", coro |-> "_wake"]
  ELSE [state |-> "IDLE", delay |-> "idle_interval", coro |-> "_idle"]

\* run's manifests: the state, the delay and the handler of each command.
manifests(cmd) ==
  IF cmd = "STOP"
  THEN [state |-> "HYBERNATE", delay |-> "hybernate_interval", coro |-> "_wake"]
  ELSE [state |-> "IDLE", delay |-> "idle_interval", coro |-> "_idle"]

\* _gather as called by task t: the tasks it cancels, which are those of
\* asyncio.all_tasks() other than t.  Pending call_later handles are not
\* tasks.  What is left of the loop's tasks is t alone.
GatherCancel(t) == Others(t)

\* The rest of run's loop body once _gather has returned: set the state,
\* schedule the handler, and go back to rxq.get().  B is the other tasks:
\* those created while run waited in _gather.
Dispatch(t, cmd, B) ==
  LET todo == manifests(cmd)
  IN /\ state' = todo.state
     /\ timers' = MapBag(SetStaleTimer, timers)
                    (+) Bag1([coro |-> todo.coro, delay |-> todo.delay, stale |-> FALSE])
     /\ tasks' = MapBag(SetStale, B)
                   (+) Bag1([t EXCEPT !.pc = IF rxq' = << >> THEN "get" ELSE "loop",
                                      !.cmd = "none"])
     /\ dispatched' = TRUE
     /\ from_play' = (cmd = "STOP" /\ state = "PLAY")

\* run up to its loop: set dbus.aioloop and enqueue PLAY (the queue is
\* unbounded: put does not suspend).  The loop is not entered when the state
\* is KILLED.
RunStart(t) ==
  /\ t.kind = "run" /\ t.pc = "start"
  /\ Ready
  /\ aioloop' = TRUE
  /\ rxq' = Append(rxq, "PLAY")
  /\ tasks' = IF state = "KILLED" THEN Others(t)
              ELSE Others(t) (+) Bag1([t EXCEPT !.pc = "loop"])
  /\ fault' = FALSE
  /\ UNCHANGED << state, timers, stopped, buffer, probe_cfg, threscomp, maxamp,
                  dispatched, from_play, signalled, handles, scope, stream >>

\* rxq.get() returns a command; _gather cancels the other tasks and, when
\* there are any, run waits for them to end.
RunGet(t) ==
  /\ t.kind = "run"
  /\ ~stopped
  /\ t.pc = "loop" \/ (t.pc = "get" /\ ~Busy)
  /\ Leaked = 0
  /\ rxq # << >>
  /\ rxq' = Tail(rxq)
  /\ IF GatherCancel(t) = EmptyBag
     THEN Dispatch(t, Head(rxq), EmptyBag)
     ELSE /\ tasks' = Bag1([t EXCEPT !.pc = "gather", !.cmd = Head(rxq)])
          /\ UNCHANGED << state, timers, dispatched, from_play >>
  /\ handles' = handles - Released(GatherCancel(t))
  /\ fault' = FALSE
  /\ UNCHANGED << stopped, aioloop, buffer, probe_cfg, threscomp, maxamp,
                  signalled, scope, stream >>

\* The tasks run cancelled have ended: the command is dispatched.
RunGathered(t) ==
  /\ t.kind = "run" /\ t.pc = "gather"
  /\ Ready
  /\ rxq' = rxq
  /\ Dispatch(t, t.cmd, Others(t))
  /\ fault' = FALSE
  /\ UNCHANGED << stopped, aioloop, buffer, probe_cfg, threscomp, maxamp,
                  signalled, handles, scope, stream >>

\* ---------------------------------------------------------- handlers
\* The latest MaxCount classifications of a handler.
Latest(h) == IF Len(h) <= MaxCount THEN h ELSE SubSeq(h, Len(h) - MaxCount + 1, Len(h))

\* The counter of consecutive detections: counter += 1, or counter = 0.
Count(counter, hit) == IF hit THEN counter + 1 ELSE 0

\* Variants of the two tests with a strict comparison.
StartReached_strict(counter) == counter > probe_cfg.start_count
StopReached_strict(counter) == counter > probe_cfg.stop_count

\* _idle's test: counter >= self.probe_cfg.start_count.
StartReached(counter) == counter >= probe_cfg.start_count

\* _monitor's test: counter >= self.probe_cfg.stop_count.
StopReached(counter) == counter >= probe_cfg.stop_count

\* The counters are capped: a handler is not run past this count.
CounterCap == MaxCount + 1

\* _wake: set the state to IDLE and create the _idle task.
Wake(t) ==
  /\ t.kind = "_wake" /\ t.pc = "start"
  /\ Ready
  /\ state' = "IDLE"
  /\ tasks' = Others(t) (+) Bag1(NewTask("_idle", t.stale))
  /\ fault' = FALSE
  /\ UNCHANGED << rxq, timers, stopped, aioloop, buffer, probe_cfg, threscomp,
                  maxamp, dispatched, from_play, signalled, handles, scope, stream >>

\* _idle from the top of its while loop to its next sleep.  B is the other
\* tasks.  The loop ends when the state is not IDLE; the probe raises on a
\* buffer without a complete frame, which ends the task.
IdleBody(t, B) ==
  IF state # "IDLE"
  THEN tasks' = B /\ UNCHANGED << state, buffer >>
  ELSE \E b \in Bufs :
         /\ buffer' = b
         /\ IF b = Short
            THEN tasks' = B /\ state' = state
            ELSE LET hit == comp(threscomp, b).high
                     n == Count(t.counter, hit)
                     h == Latest(Append(t.hist, hit))
                 IN /\ n <= CounterCap
                    /\ IF StartReached(n)
                       THEN /\ BagCardinality(B) + 2 <= MaxTasks
                            /\ state' = "PLAY"
                            /\ tasks' = B (+) Bag1(NewTask("_stream", t.stale))
                                 (+) Bag1([t EXCEPT !.pc = "sleep_stream",
                                                    !.counter = n, !.hist = h])
                       ELSE /\ state' = state
                            /\ tasks' = B (+) Bag1([t EXCEPT !.pc = "sleep",
                                                    !.counter = n, !.hist = h])

\* _idle starts, or wakes from its follow_interval or idle_interval sleep.
Idle(t) ==
  /\ t.kind = "_idle" /\ t.pc \in {"start", "sleep"}
  /\ Ready
  /\ IdleBody(t, Others(t))
  /\ fault' = FALSE
  /\ UNCHANGED << rxq, timers, stopped, aioloop, probe_cfg, threscomp, maxamp,
                  dispatched, from_play, signalled, handles, scope, stream >>

\* _idle wakes from its stream_interval sleep: it creates the _monitor task
\* and goes round its loop.
IdleSpawn(t) ==
  /\ t.kind = "_idle" /\ t.pc = "sleep_stream"
  /\ Ready
  /\ Room(1)
  /\ IdleBody(t, Others(t) (+) Bag1(NewTask("_monitor", t.stale)))
  /\ fault' = FALSE
  /\ UNCHANGED << rxq, timers, stopped, aioloop, probe_cfg, threscomp, maxamp,
                  dispatched, from_play, signalled, handles, scope, stream >>

\* _monitor from the top of its while loop to its next sleep.
MonitorBody(t, B) ==
  IF state # "PLAY" \/ buffer = Short
  THEN tasks' = B /\ state' = state
  ELSE LET hit == comp(threscomp, buffer).low
           n == Count(t.counter, hit)
           h == Latest(Append(t.hist, hit))
       IN /\ n <= CounterCap
          /\ IF StopReached(n)
             THEN /\ state' = "IDLE"
                  /\ tasks' = B (+) Bag1([t EXCEPT !.pc = "sleep_idle",
                                                   !.counter = n, !.hist = h])
             ELSE /\ state' = state
                  /\ tasks' = B (+) Bag1([t EXCEPT !.pc = "sleep",
                                                   !.counter = n, !.hist = h])

\* _monitor starts, or wakes from its follow_interval or stream_interval sleep.
Monitor(t) ==
  /\ t.kind = "_monitor" /\ t.pc \in {"start", "sleep"}
  /\ Ready
  /\ MonitorBody(t, Others(t))
  /\ fault' = FALSE
  /\ UNCHANGED << rxq, timers, stopped, aioloop, buffer, probe_cfg, threscomp,
                  maxamp, dispatched, from_play, signalled, handles, scope, stream >>

\* _monitor wakes from its idle_interval sleep: it creates the _idle task and
\* goes round its loop.
MonitorResume(t) ==
  /\ t.kind = "_monitor" /\ t.pc = "sleep_idle"
  /\ Ready
  /\ Room(1)
  /\ MonitorBody(t, Others(t) (+) Bag1(NewTask("_idle", t.stale)))
  /\ fault' = FALSE
  /\ UNCHANGED << rxq, timers, stopped, aioloop, buffer, probe_cfg, threscomp,
                  maxamp, dispatched, from_play, signalled, handles, scope, stream >>

\* A variant of the except clause that swallows the error.
StreamFail_silent(t) ==
  /\ Pending < MaxPending
  /\ rxq' = rxq
  /\ tasks' = Others(t)
  /\ state' = state

\* _stream's except clause: the error is caught and STOP is enqueued; the
\* task then ends.
StreamFail(t) ==
  /\ Pending < MaxPending
  /\ rxq' = Append(rxq, "STOP")
  /\ tasks' = Others(t)
  /\ state' = state

\* _stream's while loop from its top to its sleep: read a period and write
\* it; the write may raise.  The loop ends when the state is not PLAY.
StreamBody(t) ==
  IF state # "PLAY"
  THEN /\ tasks' = Others(t) /\ fault' = FALSE
       /\ handles' = handles - Held(t)
       /\ UNCHANGED << rxq, state, buffer >>
  ELSE \E b \in Bufs :
         /\ buffer' = b
         /\ \/ /\ fault' = FALSE
               /\ tasks' = Others(t) (+) Bag1([t EXCEPT !.pc = "sleep"])
               /\ handles' = handles + 1 - Held(t)
               /\ UNCHANGED << rxq, state >>
            \/ /\ fault' = TRUE
               /\ StreamFail(t)
               /\ handles' = handles - Held(t)

\* PlaybackDevice.__enter__ raises.  AlsaDevice.open creates the PCM object
\* and then configures it: when alsaaudio.PCM() raises no handle was opened;
\* when a setter raises the handle is open, and since __enter__ did not
\* return, __exit__ is not run.  The handle is then closed only when the PCM
\* object is finalized, which may be at once or later.
OpenFail ==
  \/ handles' = handles
  \/ Leaked < MaxLeaked /\ handles' = handles + 1

\* An open handle that no task holds is closed when its PCM object is
\* finalized.
Finalize ==
  /\ Leaked > 0
  /\ handles' = handles - 1
  /\ fault' = FALSE
  /\ UNCHANGED << state, rxq, tasks, timers, stopped, aioloop, buffer,
                  probe_cfg, threscomp, maxamp, dispatched, from_play, signalled, scope, stream >>

\* _stream starts: open the playback device and write the buffer that
\* triggered detection (either may raise), then enter the loop.
StreamStart(t) ==
  /\ t.kind = "_stream" /\ t.pc = "start"
  /\ Ready
  /\ \/ StreamBody(t)
     \/ /\ fault' = TRUE
        /\ StreamFail(t)
        /\ OpenFail
        /\ buffer' = buffer
  /\ UNCHANGED << timers, stopped, aioloop, probe_cfg, threscomp, maxamp,
                  dispatched, from_play, signalled, scope, stream >>

\* _stream wakes from its sleep.
StreamLoop(t) ==
  /\ t.kind = "_stream" /\ t.pc = "sleep"
  /\ Ready
  /\ StreamBody(t)
  /\ UNCHANGED << timers, stopped, aioloop, probe_cfg, threscomp, maxamp,
                  dispatched, from_play, signalled, scope, stream >>

\* ----------------------------------------------------------- signals
\* The end of _restart, after _gather: reload probe_cfg, create the run task.
RestartEnd(t, B) ==
  /\ probe_cfg' \in Configs
  /\ tasks' = B (+) Bag1(NewTask("run", FALSE))

\* _restart up to its await: set the state to UNKNOWN and _gather.  With no
\* other task, gather does not suspend and _restart runs to its end.
RestartStart(t) ==
  /\ t.kind = "_restart" /\ t.pc = "start"
  /\ Ready
  /\ state' = "UNKNOWN"
  /\ IF GatherCancel(t) = EmptyBag
     THEN RestartEnd(t, EmptyBag)
     ELSE /\ tasks' = Bag1([t EXCEPT !.pc = "gather"])
          /\ probe_cfg' = probe_cfg
  /\ handles' = handles - Released(GatherCancel(t))
  /\ fault' = FALSE
  /\ UNCHANGED << rxq, timers, stopped, aioloop, buffer, threscomp, maxamp,
                  dispatched, from_play, signalled, scope, stream >>

\* The tasks _restart cancelled have ended.
RestartGathered(t) ==
  /\ t.kind = "_restart" /\ t.pc = "gather"
  /\ Ready
  /\ RestartEnd(t, Others(t))
  /\ fault' = FALSE
  /\ UNCHANGED << state, rxq, timers, stopped, aioloop, buffer, threscomp,
                  maxamp, dispatched, from_play, signalled, handles, scope, stream >>

\* The end of _shutdown, after _gather: close the devices, stop the loop.
ShutdownEnd(t, B) ==
  /\ stopped' = TRUE
  /\ tasks' = B

\* _shutdown up to its await: set the state to KILLED and _gather.
ShutdownStart(t) ==
  /\ t.kind = "_shutdown" /\ t.pc = "start"
  /\ Ready
  /\ state' = "KILLED"
  /\ IF GatherCancel(t) = EmptyBag
     THEN ShutdownEnd(t, EmptyBag)
     ELSE /\ tasks' = Bag1([t EXCEPT !.pc = "gather"])
          /\ stopped' = stopped
  /\ handles' = handles - Released(GatherCancel(t))
  /\ fault' = FALSE
  /\ UNCHANGED << rxq, timers, aioloop, buffer, probe_cfg, threscomp, maxamp,
                  dispatched, from_play, signalled, scope, stream >>

\* The tasks _shutdown cancelled have ended.
ShutdownGathered(t) ==
  /\ t.kind = "_shutdown" /\ t.pc = "gather"
  /\ Ready
  /\ ShutdownEnd(t, Others(t))
  /\ fault' = FALSE
  /\ UNCHANGED << state, rxq, timers, aioloop, buffer, probe_cfg, threscomp,
                  maxamp, dispatched, from_play, signalled, handles, scope, stream >>

\* ------------------------------------------------------ specification
\* A step of run or of a handler task.
Step(t) ==
  \/ RunStart(t) \/ RunGet(t) \/ RunGathered(t)
  \/ Wake(t)
  \/ Idle(t) \/ IdleSpawn(t)
  \/ Monitor(t) \/ MonitorResume(t)
  \/ StreamStart(t) \/ StreamLoop(t)

\* A step of a signal handler task.
SignalStep(t) ==
  \/ RestartStart(t) \/ RestartGathered(t)
  \/ ShutdownStart(t) \/ ShutdownGathered(t)

Next ==
  \/ \E c \in PlayerCommand : Enqueue(c)
  \/ \E k \in {"_restart", "_shutdown"} : Signal(k)
  \/ \E tm \in BagToSet(timers) : TimerFire(tm)
  \/ \E t \in BagToSet(tasks) : Step(t)
  \/ \E t \in BagToSet(tasks) : SignalStep(t)
  \/ Finalize

Spec == Init /\ [][Next]_vars

\* The runs in which no process signal arrives, under the event loop's
\* scheduling: the loop runs every ready callback, so a step of run that is
\* possible is eventually taken.
CmdNext ==
  \/ \E c \in PlayerCommand : Enqueue(c)
  \/ \E tm \in BagToSet(timers) : TimerFire(tm)
  \/ \E t \in BagToSet(tasks) : Step(t)
  \/ Finalize

RunStep == \E t \in BagToSet(tasks) : RunStart(t) \/ RunGet(t) \/ RunGathered(t)

CmdFairSpec == Init /\ [][CmdNext]_vars /\ WF_vars(RunStep) /\ WF_vars(Finalize)

\* ------------------------------------------- the comparator on its own
\* A specification of the threshold computation alone: a state machine is
\* constructed for a capture format and a configuration (__init__ runs the
\* probe setter on probe_cfg.sensitivity), and the probe classifies the
\* statistic of a buffer.
SampleBits == {8, 16, 24}
ProbeVals == {0, 100, 5000, 8000, 12000, 20000}

Construct(bits, cfg) ==
  /\ maxamp' = MaxAmpOf(bits)
  /\ probe_cfg' = cfg
  /\ threscomp' = ProbeSetter(maxamp', cfg.sensitivity)
  /\ buffer' = Short
  /\ UNCHANGED << state, rxq, tasks, timers, stopped, aioloop, dispatched,
                  from_play, signalled, handles, scope, stream, fault >>

\* The probe getter on a buffer whose statistic is v.
ProbeRead(v) ==
  /\ buffer' = v
  /\ UNCHANGED << state, rxq, tasks, timers, stopped, aioloop, probe_cfg,
                  threscomp, maxamp, dispatched, from_play, signalled, handles, scope, stream, fault >>

\* The result of the probe getter in the current state.
ProbeResult == comp(threscomp, buffer)

ThreshConfigs ==
  [sensitivity : (-MaxDb) .. MaxDb, start_count : {1}, stop_count : {1}]

ThreshInit ==
  /\ state = "UNKNOWN"
  /\ rxq = << >>
  /\ tasks = EmptyBag
  /\ timers = EmptyBag
  /\ stopped = FALSE
  /\ aioloop = FALSE
  /\ buffer = Short
  /\ probe_cfg \in ThreshConfigs
  /\ maxamp \in {MaxAmpOf(b) : b \in SampleBits}
  /\ threscomp = ProbeSetter(maxamp, probe_cfg.sensitivity)
  /\ dispatched = FALSE
  /\ from_play = FALSE
  /\ signalled = FALSE
  /\ handles = 0
  /\ scope = NoScope
  /\ stream = NoStream
  /\ fault = FALSE

ThreshNext ==
  \/ \E b \in SampleBits, cfg \in ThreshConfigs : Construct(b, cfg)
  \/ \E v \in ProbeVals : ProbeRead(v)

ThreshSpec == ThreshInit /\ [][ThreshNext]_vars

\* ------------------------------------------------------------- claims
\* C8: for every nonzero sensitivity and every full-scale amplitude, the
\* threshold pair the probe setter installs has high > low: the bound of the
\* above-high test is strictly larger than the bound of the below-low test.
C8_HighAboveLow ==
  probe_cfg.sensitivity # 0 => threscomp.high > threscomp.low

\* C9: with a 16-bit signed format (full scale 32768) and sensitivity -10 dB
\* a statistic of 20000 is classified above-high, 5000 is classified
\* below-low and 12000 is classified neither; for any nonzero sensitivity no
\* statistic is classified both below-low and above-high, and a statistic
\* strictly between the two bounds is classified (false, false).
C9_Classification ==
  buffer # Short =>
    /\ (maxamp = MaxAmpOf(16) /\ probe_cfg.sensitivity = -10) =>
         /\ buffer = 20000 => ProbeResult.high
         /\ buffer = 5000 => ProbeResult.low
         /\ buffer = 12000 => ~ProbeResult.low /\ ~ProbeResult.high
    /\ probe_cfg.sensitivity # 0 =>
         /\ ~(ProbeResult.low /\ ProbeResult.high)
         /\ (threscomp.low < buffer * Frac /\ buffer * Frac < threscomp.high) =>
              (~ProbeResult.low /\ ~ProbeResult.high)

\* The live tasks running the coroutine kind.
IsIdle(t) == t.kind = "_idle"
IsStream(t) == t.kind = "_stream"
IsMonitor(t) == t.kind = "_monitor"

\* C1: after any sequence of PLAY/STOP commands arriving at arbitrary times
\* at most one handler chain is active at any instant: never two idle-probe
\* handlers, two stream handlers or two monitor handlers alive at once, and
\* never an idle-probe handler alive together with a stream or monitor that
\* belongs to the handlers of an earlier command.
C1_OneHandlerChain ==
  /\ NumTasks(IsIdle) <= 1
  /\ NumTasks(IsStream) <= 1
  /\ NumTasks(IsMonitor) <= 1
  /\ \A t, u \in BagToSet(tasks) :
       (IsIdle(t) /\ (IsStream(u) \/ IsMonitor(u))) => t.stale = u.stale

\* C2: whenever run dispatches a command, at the moment it schedules the new
\* state's handler nothing scheduled or running on behalf of an earlier
\* command remains outstanding: no handler task and no delayed handler start
\* created for an earlier command is left to run later.
C2_NothingOutstanding ==
  /\ \A tm \in BagToSet(timers) : ~tm.stale
  /\ \A t \in BagToSet(tasks) : ~t.stale

\* C3: once the state is KILLED it never changes again: no handler, timer
\* or command sets it to another value.
C3_KilledIsTerminal ==
  [][state = "KILLED" => state' = "KILLED"]_vars

\* The delayed start of the idle-probe handler as run schedules it.
IdleTimer == [coro |-> "_idle", delay |-> "idle_interval", stale |-> FALSE]

\* C4: the state machine starts in UNKNOWN and, no signal having arrived,
\* stays there until run dispatches its first command; that command is the
\* PLAY run enqueued for itself, and its dispatch sets the state to IDLE and
\* schedules the idle-probe handler to start after idle_interval, and
\* nothing else.
C4_FirstPlay ==
  /\ []((~dispatched /\ ~signalled) => state = "UNKNOWN")
  /\ [][(~dispatched /\ dispatched' /\ ~signalled) =>
          /\ \/ rxq # << >> /\ rxq' = Tail(rxq) /\ Head(rxq) = "PLAY"
             \/ rxq' = rxq /\ \E t \in BagToSet(tasks) : t.cmd = "PLAY"
          /\ state' = "IDLE"
          /\ timers' = Bag1(IdleTimer)]_vars

\* The first PLAY has just been dispatched: IDLE, the idle-probe start pending.
C4_Witness ==
  /\ dispatched /\ ~signalled
  /\ state = "IDLE"
  /\ timers = Bag1(IdleTimer)
  /\ rxq = << >>
  /\ NTasks = 1

\* The latest n classifications of a handler were all detections.
AllHit(h, n) == Len(h) >= n /\ \A i \in (Len(h) - n + 1) .. Len(h) : h[i]

\* The task record u is new in the step: the task stepped, or was created.
Updated(u) == CopiesIn(u, tasks') > CopiesIn(u, tasks)

\* The step is not one in which run dispatches a command.
NoDispatch == NTimers' <= NTimers

\* C5: in the idle-probe handler, for every start_count >= 1, the state
\* changes from IDLE to PLAY exactly when start_count consecutive probe
\* cycles were each classified above-high: a step IDLE -> PLAY is a cycle of
\* an idle-probe handler whose latest start_count cycles were all above-high;
\* a cycle that completes start_count consecutive above-high cycles makes the
\* transition and starts the stream; and a cycle that is not above-high
\* resets the count to zero and makes no transition.
C5_IdleStartCount ==
  [][/\ (state = "IDLE" /\ state' = "PLAY") =>
          \E u \in BagToSet(tasks') :
            /\ IsIdle(u) /\ Updated(u) /\ u.pc = "sleep_stream"
            /\ AllHit(u.hist, probe_cfg.start_count)
            /\ \E v \in BagToSet(tasks') : IsStream(v) /\ Updated(v)
     /\ \A u \in BagToSet(tasks') :
          (IsIdle(u) /\ Updated(u) /\ NoDispatch /\ u.hist # << >>) =>
             /\ AllHit(u.hist, probe_cfg.start_count) =>
                  (state' = "PLAY" /\ u.pc = "sleep_stream")
             /\ ~u.hist[Len(u.hist)] =>
                  (u.counter = 0 /\ state' = "IDLE" /\ u.pc = "sleep")]_vars

\* An idle-probe handler has just made the transition on its second
\* consecutive above-high cycle and created the stream.
C5_Witness ==
  /\ state = "PLAY"
  /\ probe_cfg.start_count = 2
  /\ \E u \in BagToSet(tasks) :
       IsIdle(u) /\ u.pc = "sleep_stream" /\ u.hist = << TRUE, TRUE >> /\ u.counter = 2
  /\ \E v \in BagToSet(tasks) : IsStream(v) /\ v.pc = "start"

\* C6: in the monitor handler, for every stop_count >= 1, the state returns
\* from PLAY to IDLE exactly when stop_count consecutive monitor cycles were
\* each classified below-low: a monitor cycle makes the transition if and
\* only if it completes stop_count consecutive below-low cycles; a cycle
\* that is not below-low resets the count to zero; and when the monitor
\* resumes after the transition it creates the idle-probe handler.
C6_MonitorStopCount ==
  [][/\ \A u \in BagToSet(tasks') :
          (IsMonitor(u) /\ Updated(u) /\ NoDispatch /\ u.hist # << >>) =>
             /\ AllHit(u.hist, probe_cfg.stop_count) <=> u.pc = "sleep_idle"
             /\ u.pc = "sleep_idle" => (state = "PLAY" /\ state' = "IDLE")
             /\ u.pc # "sleep_idle" => state' = "PLAY"
             /\ ~u.hist[Len(u.hist)] => u.counter = 0
     /\ \A u \in BagToSet(tasks) :
          (/\ IsMonitor(u) /\ u.pc = "sleep_idle"
           /\ CopiesIn(u, tasks') < CopiesIn(u, tasks)
           /\ \A w \in BagToSet(tasks') : w.pc # "gather"
           /\ NoDispatch) =>
             \E v \in BagToSet(tasks') : IsIdle(v) /\ Updated(v) /\ v.pc = "start"]_vars

\* A monitor made the transition on its second consecutive below-low cycle.
C6_Witness ==
  /\ state = "IDLE"
  /\ probe_cfg.stop_count = 2
  /\ \E u \in BagToSet(tasks) :
       IsMonitor(u) /\ u.pc = "sleep_idle" /\ u.hist = << TRUE, TRUE >> /\ u.counter = 2

\* The step is one in which run dispatches a command: run schedules a
\* delayed handler start.
DispatchStep == NTimers' > NTimers

\* The step is one in which run takes the command cmd from the queue.
Takes(cmd) == rxq # << >> /\ rxq' = Tail(rxq) /\ Head(rxq) = cmd

\* C7: when run takes a STOP while the state is PLAY the stream and monitor
\* handlers are cancelled, and the dispatch of a STOP in state PLAY sets the
\* state to HIBERNATE; then, as long as no further command is dispatched and
\* no signal handler acts, the state stays HIBERNATE until the wake-up this
\* STOP scheduled (after hibernate_interval) sets it to IDLE and starts the
\* idle-probe handler.
C7_StopFromPlay ==
  [][/\ (Takes("STOP") /\ state = "PLAY") =>
          \A u \in BagToSet(tasks') : ~IsStream(u) /\ ~IsMonitor(u)
     /\ (DispatchStep /\ from_play') => state' = "HYBERNATE"
     /\ (/\ from_play /\ state = "HYBERNATE" /\ state' # "HYBERNATE"
         /\ NoDispatch /\ state' \notin {"UNKNOWN", "KILLED"}) =>
          /\ state' = "IDLE"
          /\ \E w \in BagToSet(tasks) :
               /\ w.kind = "_wake" /\ ~w.stale
               /\ CopiesIn(w, tasks') < CopiesIn(w, tasks)
          /\ \E v \in BagToSet(tasks') : IsIdle(v) /\ Updated(v)]_vars

IsRun(t) == t.kind = "run"

\* C10: when the stream handler hits a playback-device error (opening the
\* device or writing to it) the error is caught: STOP is enqueued and the
\* command-dispatch task stays alive; and, no signal arriving, run then
\* processes the command and the state becomes HIBERNATE.
C10_StreamError ==
  /\ [][fault' => /\ rxq' = Append(rxq, "STOP")
                  /\ state' = state
                  /\ \A u \in BagToSet(tasks) :
                       IsRun(u) => CopiesIn(u, tasks') = CopiesIn(u, tasks)
                  /\ ~signalled => NumTasks(IsRun) = 1]_vars
  /\ fault ~> (state = "HYBERNATE" \/ signalled)

\* The stream handler has just failed while the state was PLAY: its STOP is
\* in the queue and the handler has ended.
C10_Witness ==
  /\ fault /\ ~signalled
  /\ state = "PLAY"
  /\ rxq = << "STOP" >>
  /\ NumTasks(IsStream) = 0
  /\ NumTasks(IsRun) = 1

\* C11: the playback device is held only while a stream handler is running:
\* whenever no stream handler is alive, no playback handle is open.
C11_PlaybackScoped ==
  NumTasks(IsStream) = 0 => handles = 0

\* ------------------------------------------------- a steady capture
\* The capture delivers the same signal all the time: once a period with a
\* statistic has been read, every later period has the same statistic.
Steady == buffer' = buffer \/ (buffer = Short /\ buffer' \in Medians)

\* The runs with a steady capture in which no command arrives from the
\* connector and no process signal is delivered.
SteadyNext ==
  \/ \E tm \in BagToSet(timers) : TimerFire(tm) /\ Steady
  \/ \E t \in BagToSet(tasks) : Step(t) /\ Steady
  \/ Finalize

SteadySpec == Init /\ [][SteadyNext]_vars

\* ------------------------------------------- formats and the decoder
\* Bounds of the buffers the decoder is run on.
MaxFrames == 2
MaxChannels == 2

\* Python integers are unbounded; a sample of up to 32 bits and the
\* differences of two such samples are kept as the two limbs of
\* hi * 2^16 + lo with 0 <= lo < 2^16.
Limb == 2 ^ 16
Num(hi, lo) == [hi |-> hi, lo |-> lo]
NumOf(n) == Num(n \div Limb, n % Limb)
NumSub(a, b) ==
  LET d == a.lo - b.lo IN Num(a.hi - b.hi + (d \div Limb), d % Limb)
NumAbs(a) == IF a.hi < 0 THEN NumSub(NumOf(0), a) ELSE a
NumPow2(e) == IF e < 16 THEN Num(0, 2 ^ e) ELSE Num(2 ^ (e - 16), 0)

\* A format identifier is the tuple of its characters.
DigitChars == << "0", "1", "2", "3", "4", "5", "6", "7", "8", "9" >>
IsDigit(c) == \E i \in 1..10 : DigitChars[i] = c
DigitVal(c) == (CHOOSE i \in 1..10 : DigitChars[i] = c) - 1
RECURSIVE IntOf(_)
IntOf(ds) ==
  IF ds = << >> THEN 0
  ELSE 10 * IntOf(SubSeq(ds, 1, Len(ds) - 1)) + DigitVal(ds[Len(ds)])

\* fmt_matcher: the regular expression .*(S|U)(\d+)_?(LE|BE)?$ matched
\* from the start of the identifier.  After the sign letter come all the
\* digits, then an optional underscore and an optional LE or BE, then the
\* end; no such tail holds an S or a U, so at most one position of the sign
\* letter matches.
NumDigits(r) ==
  CHOOSE n \in 0..Len(r) :
    /\ \A i \in 1..n : IsDigit(r[i])
    /\ n = Len(r) \/ ~IsDigit(r[n + 1])
EndianTails == { << >>, << "_" >>, << "L", "E" >>, << "B", "E" >>,
                 << "_", "L", "E" >>, << "_", "B", "E" >> }
Rest(id, i) == SubSeq(id, i + 1, Len(id))
AfterDigits(r) == SubSeq(r, NumDigits(r) + 1, Len(r))
MatchAt(id, i) ==
  /\ id[i] \in {"S", "U"}
  /\ NumDigits(Rest(id, i)) >= 1
  /\ AfterDigits(Rest(id, i)) \in EndianTails
EndianOf(tail) ==
  IF Len(tail) < 2 THEN "None"
  ELSE IF tail[Len(tail) - 1] = "L" THEN "LE" ELSE "BE"
fmt_matcher(id) ==
  LET I == {i \in 1..Len(id) : MatchAt(id, i)} IN
  IF I = {} THEN [matched |-> FALSE]
  ELSE LET i == CHOOSE j \in I : \A k \in I : k <= j
           r == Rest(id, i)
       IN [matched |-> TRUE,
           sign    |-> id[i],
           bits    |-> IntOf(SubSeq(r, 1, NumDigits(r))),
           endian  |-> EndianOf(AfterDigits(r))]

\* The descriptor both constructors build when the identifier matches.
Descriptor(fmt, res, channels) ==
  [raised    |-> "",
   warned    |-> FALSE,
   format    |-> fmt,
   size      |-> res.bits \div 8,
   signed    |-> res.sign = "S",
   endian    |-> res.endian,
   channels  |-> channels,
   maxamp    |-> NumPow2(res.bits - 1),
   reference |-> IF res.sign = "S" THEN NumOf(0) ELSE NumPow2(res.bits - 1)]

\* AlsaDeviceConfig.__init__ on an identifier that does not match: the
\* warning is emitted and size, signed and endian are set, then
\* `1 << int(bits) - 1` reads the local bits, which only the matching branch
\* binds.
Fallback(channels) ==
  [raised |-> "UnboundLocalError", warned |-> TRUE]

AlsaDeviceConfig(fmt, channels) ==
  LET res == fmt_matcher(fmt) IN
  IF res.matched THEN Descriptor(fmt, res, channels) ELSE Fallback(channels)

\* StreamMeta.__init__: res.groups() is called on the result of re.match
\* without a test, and re.match returns None when there is no match.
StreamMeta(fmt, channels) ==
  LET res == fmt_matcher(fmt) IN
  IF res.matched THEN Descriptor(fmt, res, channels)
  ELSE [raised |-> "AttributeError", warned |-> FALSE]

\* MemScope.padding_t and the identity MemScope.__init__ takes for the
\* other formats.  x[2] of a field shorter than three bytes raises
\* IndexError.
PadByte(x) == IF x[3] < 128 THEN 0 ELSE 255
Padded(x) == [raised |-> "", bytes |-> x]
IndexError == [raised |-> "IndexError", bytes |-> << >>]
padding(cfg, x) ==
  IF cfg.size = 3 /\ cfg.endian \in {"LE", "BE"}
  THEN IF cfg.signed
       THEN IF Len(x) < 3 THEN IndexError
            ELSE IF cfg.endian = "LE" THEN Padded(x \o << PadByte(x) >>)
                 ELSE Padded(<< PadByte(x) >> \o x)
       ELSE IF cfg.endian = "LE" THEN Padded(x \o << 0 >>)
            ELSE Padded(<< 255 >> \o x)
  ELSE Padded(x)

\* MemScope.struct_t: the struct code of a sample, and the bytes it takes.
struct_t(cfg) ==
  IF cfg.size = 1 THEN (IF cfg.signed THEN "b" ELSE "c")
  ELSE IF cfg.size = 2 THEN (IF cfg.signed THEN "h" ELSE "H")
  ELSE IF cfg.signed THEN "i" ELSE "I"
CodeSize(code) ==
  IF code \in {"b", "c"} THEN 1 ELSE IF code \in {"h", "H"} THEN 2 ELSE 4

\* struct.unpack of one sample: code c gives a bytes object of length one,
\* the other codes an integer in the byte order of the format (a single
\* byte has no order).
Reverse(x) == [i \in 1..Len(x) |-> x[Len(x) + 1 - i]]
Signed(v, top) == IF v >= top THEN v - 2 * top ELSE v
UnpackInt(code, endian, x) ==
  LET m == IF endian = "LE" THEN Reverse(x) ELSE x
      isSigned == code \in {"b", "h", "i"}
  IN IF Len(m) = 1
     THEN NumOf(IF isSigned THEN Signed(m[1], 2 ^ 7) ELSE m[1])
     ELSE IF Len(m) = 2
     THEN NumOf(IF isSigned THEN Signed(m[1] * 256 + m[2], 2 ^ 15)
                ELSE m[1] * 256 + m[2])
     ELSE Num(IF isSigned THEN Signed(m[1] * 256 + m[2], 2 ^ 15)
              ELSE m[1] * 256 + m[2],
              m[3] * 256 + m[4])
UnpackOne(code, endian, x) ==
  IF code = "c" THEN [bytes |-> x] ELSE UnpackInt(code, endian, x)
IsInteger(v) == DOMAIN v = {"hi", "lo"}

\* A variant of unpack that fills a chunk that is too short with zero bytes.
Unpack_lenient(cfg, chunk) ==
  LET n == CodeSize(struct_t(cfg))
      full == chunk \o [i \in 1..(n * cfg.channels - Len(chunk)) |-> 0]
  IN IF Len(chunk) = 0 \/ Len(chunk) > n * cfg.channels
     THEN [raised |-> "struct.error", frame |-> << >>]
     ELSE [raised |-> "",
           frame  |-> [c \in 1..cfg.channels |->
                         UnpackOne(struct_t(cfg), cfg.endian,
                                   SubSeq(full, (c - 1) * n + 1, c * n))]]

\* self.struct.unpack(chunk): struct.error unless the chunk has exactly the
\* size of the struct, else the tuple of the samples.
Unpack(cfg, chunk) ==
  LET n == CodeSize(struct_t(cfg)) IN
  IF Len(chunk) # n * cfg.channels
  THEN [raised |-> "struct.error", frame |-> << >>]
  ELSE [raised |-> "",
        frame  |-> [c \in 1..cfg.channels |->
                      UnpackOne(struct_t(cfg), cfg.endian,
                                SubSeq(chunk, (c - 1) * n + 1, c * n))]]

\* self.buffer.read(size) at position pos: the bytes that are left, at most
\* size of them.
Min(a, b) == IF a < b THEN a ELSE b
ReadAt(data, pos, size) == SubSeq(data, pos + 1, Min(pos + size, Len(data)))

\* The loop of __next__ over the channels from position pos: the chunk of
\* the padded fields and the position reached, or the IndexError of a
\* padding.
RECURSIVE Chunk(_, _, _, _)
Chunk(cfg, data, pos, c) ==
  IF c = 0 THEN [chunk |-> << >>, pos |-> pos, raised |-> ""]
  ELSE LET x == ReadAt(data, pos, cfg.size)
           p == padding(cfg, x)
       IN IF p.raised # ""
          THEN [chunk |-> << >>, pos |-> pos + Len(x), raised |-> p.raised]
          ELSE LET r == Chunk(cfg, data, pos + Len(x), c - 1)
               IN [r EXCEPT !.chunk = p.bytes \o r.chunk]

\* The buffers: fields whose first and last bytes have the top bit clear or
\* set, in every combination, one after the other from a starting shape,
\* and the leading bytes of one more field as the incomplete tail.
Shapes == << << 1, 1 >>, << 1, 128 >>, << 128, 1 >>, << 128, 128 >> >>
Seeds == 0..3
Field(size, j) ==
  LET sh == Shapes[(j % 4) + 1] IN
  IF size = 1 THEN << sh[1] >>
  ELSE IF size = 2 THEN << sh[1], sh[2] >>
  ELSE IF size = 3 THEN << sh[1], 2, sh[2] >>
  ELSE << sh[1], 2, 3, sh[2] >>
RECURSIVE Fields(_, _, _)
Fields(size, j, n) ==
  IF n = 0 THEN << >> ELSE Field(size, j) \o Fields(size, j + 1, n - 1)
Buffer(size, seed, n, extra) ==
  LET all == Fields(size, seed, n + extra) IN SubSeq(all, 1, n * size + extra)

\* The identifiers: PCM_FORMAT_ and a sign, the bits and a byte order (the
\* 8-bit formats also without one), and identifiers outside the grammar.
Prefix == << "P", "C", "M", "_", "F", "O", "R", "M", "A", "T", "_" >>
BitsText(bits) ==
  IF bits = 8 THEN << "8" >>
  ELSE IF bits = 16 THEN << "1", "6" >>
  ELSE IF bits = 24 THEN << "2", "4" >>
  ELSE << "3", "2" >>
EndianText(e) ==
  IF e = "LE" THEN << "_", "L", "E" >>
  ELSE IF e = "BE" THEN << "_", "B", "E" >> ELSE << >>
MkFormat(sign, bits, e) == Prefix \o << sign >> \o BitsText(bits) \o EndianText(e)
Valid ==
  {[sign |-> s, bits |-> b, endian |-> e] :
     s \in {"S", "U"}, b \in {8, 16, 24, 32}, e \in {"LE", "BE"}}
  \cup {[sign |-> s, bits |-> 8, endian |-> "None"] : s \in {"S", "U"}}
Invalid ==
  { Prefix \o << "F", "L", "O", "A", "T", "_", "L", "E" >>,
    Prefix \o << "S", "2", "4", "_", "3", "L", "E" >>,
    Prefix \o << "M", "U", "_", "L", "A", "W" >>,
    << >> }

NewScope(fmt, size, ch, seed, k, extra) ==
  [pc       |-> "new",
   format   |-> fmt,
   channels |-> ch,
   data     |-> Buffer(size, seed, k * ch, extra),
   full     |-> k,
   dev_cfg  |-> [raised |-> "", warned |-> FALSE],
   pos      |-> 0,
   frames   |-> << >>,
   probe    |-> << >>,
   raised   |-> ""]

Machine == << state, rxq, tasks, timers, stopped, aioloop, buffer, probe_cfg,
              threscomp, maxamp, dispatched, from_play, signalled, handles,
              fault >>

ScopeInit ==
  /\ state = "UNKNOWN"
  /\ rxq = << >>
  /\ tasks = EmptyBag
  /\ timers = EmptyBag
  /\ stopped = FALSE
  /\ aioloop = FALSE
  /\ buffer = Short
  /\ probe_cfg = CHOOSE c \in Configs : c.sensitivity = 0
  /\ maxamp = MaxAmpOf(16)
  /\ threscomp = ProbeSetter(maxamp, probe_cfg.sensitivity)
  /\ dispatched = FALSE
  /\ from_play = FALSE
  /\ signalled = FALSE
  /\ handles = 0
  /\ fault = FALSE
  /\ stream = NoStream
  /\ \E ch \in 1..MaxChannels, seed \in Seeds, k \in 0..MaxFrames :
       \/ \E v \in Valid : \E extra \in 0..(ch * (v.bits \div 8) - 1) :
            scope = NewScope(MkFormat(v.sign, v.bits, v.endian),
                             v.bits \div 8, ch, seed, k, extra)
       \/ \E f \in Invalid, extra \in 0..(ch * 2 - 1) :
            scope = NewScope(f, 2, ch, seed, k, extra)

\* The capture descriptor is constructed, by either program.
Configure(cfg) ==
  /\ scope.pc = "new"
  /\ scope' = [scope EXCEPT !.dev_cfg = cfg,
                            !.raised = cfg.raised,
                            !.pc = IF cfg.raised = "" THEN "iter" ELSE "raised"]
  /\ UNCHANGED << Machine, stream >>
ConfigureAlsa == Configure(AlsaDeviceConfig(scope.format, scope.channels))
ConfigureMeta == Configure(StreamMeta(scope.format, scope.channels))

\* MemScope.__next__: a frame, or StopIteration when unpack raises
\* struct.error or a padding raises IndexError.
ScopeNextFrame ==
  /\ scope.pc = "iter"
  /\ LET r == Chunk(scope.dev_cfg, scope.data, scope.pos, scope.dev_cfg.channels)
         f == IF r.raised = "" THEN Unpack(scope.dev_cfg, r.chunk)
              ELSE [raised |-> r.raised, frame |-> << >>]
     IN scope' = IF f.raised = ""
                 THEN [scope EXCEPT !.pos = r.pos,
                                    !.frames = Append(scope.frames, f.frame)]
                 ELSE IF f.raised \in {"struct.error", "IndexError"}
                 THEN [scope EXCEPT !.pos = r.pos, !.pc = "stop"]
                 ELSE [scope EXCEPT !.pos = r.pos, !.pc = "raised",
                                    !.raised = f.raised]
  /\ UNCHANGED << Machine, stream >>

\* The probe getter's list of abs(val - reference) over the samples of the
\* frames: TypeError when a sample is not a number.
ProbeData ==
  /\ scope.pc = "stop"
  /\ LET vals == {scope.frames[i][c] : i \in 1..Len(scope.frames),
                                       c \in 1..scope.dev_cfg.channels}
     IN IF \A v \in vals : IsInteger(v)
        THEN scope' = [scope EXCEPT
               !.pc = "probed",
               !.probe = [i \in 1..Len(scope.frames) |->
                            [c \in 1..scope.dev_cfg.channels |->
                               NumAbs(NumSub(scope.frames[i][c],
                                             scope.dev_cfg.reference))]]]
        ELSE scope' = [scope EXCEPT !.pc = "raised", !.raised = "TypeError"]
  /\ UNCHANGED << Machine, stream >>

ScopeNext == ConfigureAlsa \/ ConfigureMeta \/ ScopeNextFrame \/ ProbeData
ScopeSpec == ScopeInit /\ [][ScopeNext]_vars

\* ------------------------------------------------ the stream handlers
\* The periods a handler is followed over.
MaxPeriods == 3

NewStream(variant, b) ==
  [variant |-> variant,
   pc      |-> "start",
   playing |-> TRUE,
   first   |-> b,
   buffer  |-> b,
   reads   |-> << >>,
   written |-> << >>,
   raised  |-> FALSE]

\* A stream handler of either program has been created after a detection on
\* the buffer b: LoopStateMachine._stream in state PLAY, FSM.stream with
\* is_streaming set.
StreamInit ==
  /\ state = "UNKNOWN"
  /\ rxq = << >>
  /\ tasks = EmptyBag
  /\ timers = EmptyBag
  /\ stopped = FALSE
  /\ aioloop = FALSE
  /\ buffer = Short
  /\ probe_cfg = CHOOSE c \in Configs : c.sensitivity = 0
  /\ maxamp = MaxAmpOf(16)
  /\ threscomp = ProbeSetter(maxamp, probe_cfg.sensitivity)
  /\ dispatched = FALSE
  /\ from_play = FALSE
  /\ signalled = FALSE
  /\ handles = 0
  /\ fault = FALSE
  /\ scope = NoScope
  /\ \E variant \in {"_stream", "stream"}, b \in Medians :
       stream = NewStream(variant, b)

\* The handler ends: because the loop condition is false, or because the
\* playback device raised (caught by _stream's except clause; swallowed by
\* the __exit__ of usbloop.py's AlsaDevice, which returns True).
Ended(s) == [s EXCEPT !.pc = "done"]
Raised(s) == [s EXCEPT !.pc = "done", !.raised = TRUE]

\* self.capture.read() into the buffer.
Read(s, b) == [s EXCEPT !.buffer = b, !.reads = Append(s.reads, b)]

\* playback.write of the buffer, when it does not raise.
Written(s) == [s EXCEPT !.written = Append(s.written, s.buffer)]

\* LoopStateMachine._stream's loop from its top to its sleep: while the
\* state is PLAY, read a period, write it (the write may raise) and sleep.
LoopBody(s) ==
  IF ~s.playing THEN {Ended(s)}
  ELSE UNION {{[Written(Read(s, b)) EXCEPT !.pc = "sleep"], Raised(Read(s, b))} :
                b \in Medians}

\* FSM.stream's loop from its top to its sleep: while is_streaming, read a
\* period into the buffer and sleep; the write of the buffer is commented
\* out.  (read and write are plain functions in usbloop.py; the handler is
\* followed as it is written, with each await yielding the call's result.)
FsmBody(s) ==
  IF ~s.playing THEN {Ended(s)}
  ELSE {[Read(s, b) EXCEPT !.pc = "sleep"] : b \in Medians}

\* The start of either handler: open the playback device and write the
\* buffer that triggered the detection (either may raise), then the loop.
FromStart(s) ==
  {Raised(s)} \cup (IF s.variant = "_stream" THEN LoopBody(Written(s))
                    ELSE FsmBody(Written(s)))

\* LoopStateMachine._stream runs from its start, or from its sleep, to its
\* next sleep or to its end.
LoopStream ==
  /\ stream.pc \in {"start", "sleep"}
  /\ stream.variant = "_stream"
  /\ Len(stream.reads) < MaxPeriods
  /\ stream' \in (IF stream.pc = "start" THEN FromStart(stream)
                  ELSE LoopBody(stream))
  /\ UNCHANGED << Machine, scope >>

\* FSM.stream runs from its start, or from its sleep, to its next sleep or
\* to its end.
FsmStream ==
  /\ stream.pc \in {"start", "sleep"}
  /\ stream.variant = "stream"
  /\ Len(stream.reads) < MaxPeriods
  /\ stream' \in (IF stream.pc = "start" THEN FromStart(stream)
                  ELSE FsmBody(stream))
  /\ UNCHANGED << Machine, scope >>

\* While the handler sleeps the state leaves PLAY (the monitor, or a
\* dispatch), or probe_stream clears is_streaming.
StopPlaying ==
  /\ stream.pc = "sleep"
  /\ stream.playing
  /\ stream' = [stream EXCEPT !.playing = FALSE]
  /\ UNCHANGED << Machine, scope >>

StreamNext == LoopStream \/ FsmStream \/ StopPlaying
StreamSpec == StreamInit /\ [][StreamNext]_vars

\* C12: for every sample size from 1 to 4 bytes, signed or unsigned, in
\* either byte order and for every channel count, iterating MemScope over a
\* buffer of k full frames, with or without a trailing incomplete frame,
\* yields exactly k frames and ends without raising an error.
FrameBytes == scope.dev_cfg.size * scope.dev_cfg.channels
C12_FrameCount ==
  /\ scope.pc = "iter" => Len(scope.frames) <= scope.full
  /\ scope.pc \in {"stop", "probed"} =>
       /\ Len(scope.frames) = scope.full
       /\ scope.raised = ""
  /\ scope.pc = "raised" => scope.raised \notin {"struct.error", "IndexError"}
C12_Witness ==
  /\ scope.pc = "stop"
  /\ scope.dev_cfg.size = 3 /\ scope.dev_cfg.signed /\ scope.dev_cfg.endian = "BE"
  /\ scope.dev_cfg.channels = MaxChannels
  /\ Len(scope.frames) = MaxFrames
  /\ Len(scope.data) = MaxFrames * FrameBytes + FrameBytes - 1

\* C13: every 3-byte field decodes to the value of its 24 bits, two's
\* complement when the format is signed and plain when it is unsigned: the
\* byte added to make four is 0xFF for a signed field whose most significant
\* byte has the top bit set and 0x00 otherwise, in either byte order.
FieldAt(i, c) ==
  SubSeq(scope.data, ((i - 1) * scope.dev_cfg.channels + c - 1) * 3 + 1,
                     ((i - 1) * scope.dev_cfg.channels + c) * 3)
Value24(cfg, x) ==
  LET m == IF cfg.endian = "LE" THEN Reverse(x) ELSE x
  IN Num(IF cfg.signed THEN Signed(m[1], 2 ^ 7) ELSE m[1], m[2] * 256 + m[3])
C13_ThreeByteValue ==
  (scope.pc \in {"iter", "stop", "probed"} /\ scope.dev_cfg.size = 3) =>
    \A i \in 1..Len(scope.frames), c \in 1..scope.dev_cfg.channels :
      scope.frames[i][c] = Value24(scope.dev_cfg, FieldAt(i, c))

\* C14: constructing a descriptor from an identifier outside the grammar
\* never raises: it completes with a warning and holds the signed 16-bit
\* little-endian default, full scale 32768 and reference 0.
C14_FallbackCompletes ==
  (scope.pc # "new" /\ ~fmt_matcher(scope.format).matched) =>
    /\ scope.dev_cfg.raised = ""
    /\ scope.dev_cfg.warned
    /\ scope.dev_cfg.size = 2
    /\ scope.dev_cfg.signed
    /\ scope.dev_cfg.endian = "LE"
    /\ scope.dev_cfg.maxamp = NumOf(32768)
    /\ scope.dev_cfg.reference = NumOf(0)

\* C15: the threshold pair the probe uses is always the pair derived from
\* the sensitivity of the configuration now loaded, after construction and
\* after every reload by RESTART.
C15_ThresholdsFollowConfig ==
  threscomp = ProbeSetter(maxamp, probe_cfg.sensitivity)

MonitorStops ==
  /\ state = "PLAY" /\ state' = "IDLE"
  /\ \E u \in BagToSet(tasks') :
       /\ u.kind = "_monitor" /\ u.pc = "sleep_idle"
       /\ CopiesIn(u, tasks') > CopiesIn(u, tasks)
C17_NoChatter ==
  [][probe_cfg.sensitivity # 0 => ~MonitorStops]_vars

\* C18: when a RESTART has been handled (the step in which _restart creates
\* the new run task) nothing scheduled before it is left, neither a handler
\* task nor a pending delayed start, and the new run task is the only one;
\* there are never two run tasks; and when the new run task starts, the PLAY
\* it enqueues is the only command in the queue, so that PLAY is the next
\* command it dispatches.
FreshRun == NewTask("run", FALSE)
RestartDone == CopiesIn(FreshRun, tasks') > CopiesIn(FreshRun, tasks)
RunStarts ==
  /\ CopiesIn(FreshRun, tasks') < CopiesIn(FreshRun, tasks)
  /\ rxq' = Append(rxq, "PLAY")
C18_NothingLeft ==
  [][RestartDone =>
       /\ timers' = EmptyBag
       /\ \A u \in BagToSet(tasks') : u.kind \notin HandlerKinds]_vars
C18_OneRun == NumTasks(IsRun) <= 1
C18_FreshPlayFirst ==
  [][(signalled /\ RunStarts) => rxq' = << "PLAY" >>]_vars
C18_Restart ==
  /\ C18_NothingLeft
  /\ []C18_OneRun
  /\ C18_FreshPlayFirst

\* C19: the state leaves PLAY only by the monitor handler, which sets IDLE
\* when it has counted stop_count cycles below the low threshold, by run
\* dispatching a command, or by a signal handler (RESTART sets UNKNOWN,
\* SHUTDOWN sets KILLED); a wake-up left from an earlier STOP does not take a
\* streaming controller back to IDLE.
MonitorCounted ==
  /\ MonitorStops
  /\ \E u \in BagToSet(tasks') :
       /\ u.kind = "_monitor" /\ u.pc = "sleep_idle"
       /\ u.counter >= probe_cfg.stop_count
BySignal ==
  /\ state' \in {"UNKNOWN", "KILLED"}
  /\ \E u \in BagToSet(tasks) : u.kind \in {"_restart", "_shutdown"}
C19_LeavesPlay ==
  [][(state = "PLAY" /\ state' # "PLAY") =>
       (MonitorCounted \/ DispatchStep \/ BySignal)]_vars

\* C20: for every supported format, the unsigned 1-byte ones included, each
\* frame the decoder yields is a tuple of `channels` integers, and the
\* probe's |sample - reference| is computed for every sample without error.
C20_SamplesAreIntegers ==
  /\ scope.pc \in {"iter", "stop", "probed"} =>
       \A i \in 1..Len(scope.frames) :
         /\ Len(scope.frames[i]) = scope.dev_cfg.channels
         /\ \A c \in 1..scope.dev_cfg.channels : IsInteger(scope.frames[i][c])
  /\ scope.raised # "TypeError"

\* C21: the controller is never left without a handler.  Whenever no
\* command is being dispatched (run waits at rxq.get() on an empty queue and
\* no signal handler is running), a state of IDLE has a live idle-probe
\* handler or a pending delayed start of one, PLAY has a live stream handler,
\* and HIBERNATE has a pending wake-up; a capture buffer shorter than one
\* frame does not end the handler.
Quiet ==
  /\ ~stopped
  /\ rxq = << >>
  /\ \A u \in BagToSet(tasks) :
       /\ u.kind \notin {"_restart", "_shutdown"}
       /\ u.kind = "run" => u.pc = "get"
IdleComing ==
  \/ \E u \in BagToSet(tasks) :
       \/ IsIdle(u)
       \/ u.kind = "_wake"
       \/ IsMonitor(u) /\ u.pc = "sleep_idle"
  \/ \E tm \in BagToSet(timers) : tm.coro = "_idle"
WakeComing ==
  \/ \E u \in BagToSet(tasks) : u.kind = "_wake"
  \/ \E tm \in BagToSet(timers) : tm.coro = "_wake"
C21_NeverStuck ==
  Quiet =>
    /\ state = "IDLE" => IdleComing
    /\ state = "PLAY" => NumTasks(IsStream) > 0
    /\ state = "HYBERNATE" => WakeComing

====
